---- MODULE Spec2Model ----
(***************************************************************************)
(* The automatic data-linking engine of rumee: DataLinkingService          *)
(* (linkNoteToEntities, linkPersonToRelevantData, linkMeetingToData,       *)
(* createRemindersFromActionItems) and SummaryService.generateDailySummary.*)
(*                                                                         *)
(* A call is a sequence of steps; every step is the synchronous code       *)
(* between two `await`s, and fires when the awaited remote call (language  *)
(* model or MongoDB) returns or fails.  Spec runs one call and its         *)
(* re-invocations, SpecSeq a sequence of calls, SpecConc two calls whose   *)
(* steps interleave on the one JavaScript thread.                          *)
(*                                                                         *)
(* Text is a sequence of one-letter strings, so that toLowerCase() and     *)
(* includes() are computed.  Scores are in tenths: 6 is 0.6.  Time is in   *)
(* ticks, TicksPerDay ticks to a calendar day.                             *)
(***************************************************************************)
EXTENDS Integers, Sequences, FiniteSets, TLC

VARIABLES
  persons,    \* Person collection: id -> document
  notes,      \* Note collection: id -> document
  meetings,   \* Meeting collection: id -> document
  reminders,  \* Reminder collection, in insertion order
  pc,         \* the await the running call is suspended at
  op,         \* the running call: method name and arguments
  loc,        \* the running call's local variables
  outcome,    \* "none" while running, then "returned" or "raised"
  caught,     \* the running call's catch block has run
  result,     \* the value a call returned (generateDailySummary)
  aiCalls,    \* calls of AIService.generateDailySummary made by the running call
  rec,        \* what the language model answered in the first pass
  passes,     \* completed passes of the running call (1 + retries)
  before,     \* the collections when the current pass started
  saved,      \* ids of the documents whose save succeeded in this pass
  clean,      \* no pass of the running call entered its catch block
  calls,      \* calls a scripted caller has made (NextCall, StartPair)
  other       \* the second call of a concurrent pair, while it does not run

vars == <<persons, notes, meetings, reminders, pc, op, loc, outcome, caught,
          result, aiCalls, rec, passes, before, saved, clean, calls, other>>

store == <<persons, notes, meetings, reminders>>

-----------------------------------------------------------------------------
(* Bounds of the model *)

MaxConn == 2        \* connections in one answer of findConnections
MaxItems == 2       \* action items in one answer of generateActionItems
MaxPasses == 2      \* a call and its re-invocations with the same arguments
TicksPerDay == 2    \* clock ticks in a calendar day
MaxDay == 2         \* days 0..MaxDay can be asked for a summary
MaxCalls == 3       \* calls of a sequence

(* Program constants *)

LinkThreshold == 6      \* connection.score > 0.6, in tenths
NoteWindow == 50        \* .limit(50)
PersonWindow == 100     \* .limit(100)
ReminderOffsetDays == 3 \* getDate() + 3

-----------------------------------------------------------------------------
(* Text *)

Lower(c) == CASE c = "J" -> "j" [] c = "A" -> "a" [] c = "O" -> "o" [] OTHER -> c

\* String.prototype.toLowerCase
toLowerCase(s) == [k \in 1..Len(s) |-> Lower(s[k])]

\* String.prototype.includes
includes(s, t) ==
  \E k \in 0..(Len(s) - Len(t)) : \A j \in 1..Len(t) : s[k + j] = t[j]

Jo == <<"J", "o">>
An == <<"A", "n">>
an == <<"a", "n">>
EmptyText == <<>>

-----------------------------------------------------------------------------
(* Identifiers.  BadId is a string that is no ObjectId (wrong length, not  *)
(* hexadecimal, empty); "nX", "pX", "mX" are ObjectIds of no document.     *)

BadId == "bad"
Users == {"u1", "u2"}
PersonIds == {"p1", "p2", "p3", "p4"}
NoteIds == {"n1", "n2", "n3", "n4"}
MeetingIds == {"m1", "m2", "m3"}

\* natural order of the collections, the order find() returns documents in
PersonOrder == <<"p1", "p2", "p3", "p4">>
NoteOrder == <<"n1", "n2", "n3", "n4">>
MeetingOrder == <<"m1", "m2", "m3">>

\* new mongoose.Types.ObjectId(s) throws on a string that is no ObjectId
ObjectIdThrows(s) == s = BadId

-----------------------------------------------------------------------------
(* The collections a call starts from *)

InitPersons ==
  [p \in PersonIds |->
     [userId |-> IF p = "p4" THEN "u2" ELSE "u1",
      name |-> IF p = "p3" THEN An ELSE Jo,
      linkedNotes |-> <<>>,
      meetings |-> <<>>]]

InitNotes ==
  [n \in NoteIds |->
     [userId |-> IF n = "n4" THEN "u2" ELSE "u1",
      title |-> <<"t">>,
      content |-> CASE n = "n1" -> <<"m", "J", "o">>
                    [] n = "n2" -> <<"j", "o", "x">>
                    [] n = "n3" -> <<"A", "n">>
                    [] OTHER -> <<"J", "o">>,
      linkedEntities |-> IF n = "n1" THEN <<"n3">> ELSE <<>>,
      createdAt |-> CASE n = "n1" -> 0
                      [] n = "n2" -> 1
                      [] n = "n3" -> TicksPerDay
                      [] OTHER -> TicksPerDay + 1]]

InitMeetings ==
  [m \in MeetingIds |->
     [userId |-> IF m = "m2" THEN "u2" ELSE "u1",
      title |-> CASE m = "m1" -> <<"J", "O">>
                  [] m = "m2" -> <<"J", "o">>
                  [] OTHER -> <<"x">>,
      notes |-> IF m = "m3" THEN <<>> ELSE <<"y">>,
      description |-> <<"d">>,
      actionItems |-> CASE m = "m1" -> <<<<"a">>, <<"b">>>>
                        [] m = "m2" -> <<>>
                        [] OTHER -> <<<<"b">>>>,
      linkedNotes |-> IF m = "m1" THEN <<"n3">> ELSE <<>>,
      date |-> IF m = "m1" THEN TicksPerDay + 1 ELSE 0]]

\* An owner with more notes and more meetings than the widest window.  No
\* call names one of these records, so that no call writes them, and they
\* are kept out of the variables.
HeavyUser == "u3"
BulkSize == PersonWindow + 1
BulkNotes == [k \in 1..BulkSize |-> "b" \o ToString(k)]
BulkMeetings == [k \in 1..BulkSize |-> "c" \o ToString(k)]
BulkOf(userId, bulk) == IF userId = HeavyUser THEN bulk ELSE <<>>

\* the reading of the clock, new Date()
Clock == 0..((MaxDay + 1) * TicksPerDay - 1)

-----------------------------------------------------------------------------
(* Sequences *)

Range(s) == {s[k] : k \in 1..Len(s)}

SeqsUpTo(S, n) == UNION {[1..k -> S] : k \in 0..n}

Count(s, x) == Cardinality({k \in 1..Len(s) : s[k] = x})

NoDuplicates(s) == \A j, k \in 1..Len(s) : s[j] = s[k] => j = k

noLimit(s, n) == s

\* Query.limit(n)
limit(s, n) == IF Len(s) <= n THEN s ELSE SubSeq(s, 1, n)

-----------------------------------------------------------------------------
(* What the remote capabilities can answer.  kind "fail" is a rejected     *)
(* promise (timeout, rate limit, JSON.parse throwing on the reply); the    *)
(* other kinds are replies that parsed.                                    *)

ExtractedNames == {Jo, an}

\* What the language model sends back to extractEntities: "error" is a
\* rejected request, "unparseable" content that is no JSON, "null" content
\* that parses to no object, "bag" content that parses to an object.
EntityReplies ==
  {[kind |-> k, people |-> {}] : k \in {"error", "unparseable", "null"}}
    \cup {[kind |-> "bag", people |-> s] : s \in SUBSET ExtractedNames}

\* AIService.extractEntities: return JSON.parse(content), and
\* catch (error) { logger.error(...); throw error }
extractEntities(reply) ==
  [kind |-> CASE reply.kind \in {"error", "unparseable"} -> "fail"
              [] reply.kind = "null" -> "null"
              [] OTHER -> "ok",
   people |-> reply.people,
   reply |-> reply.kind]

EntityAnswers == {extractEntities(r) : r \in EntityReplies}

Scores == {5, 6, 7}
ConnIndexes == {0, 1, 2}
Connection == [index : ConnIndexes, score : Scores]

\* A scripted caller (calls > 0) is answered with lists of at most one
\* element; a single call is answered with lists up to the bounds.
ListBound(n) == IF calls > 0 THEN 1 ELSE n

\* AIService.findConnections: "malformed" is a reply that parses to no array
ConnectionAnswers ==
  {[kind |-> "fail", list |-> <<>>], [kind |-> "malformed", list |-> <<>>]}
    \cup {[kind |-> "ok", list |-> l] :
            l \in SeqsUpTo(Connection, ListBound(MaxConn))}

ActionItemTexts == {<<"a">>, <<"b">>}

\* AIService.generateActionItems
ActionItemAnswers ==
  {[kind |-> "fail", list |-> <<>>]}
    \cup {[kind |-> "ok", list |-> l] :
            l \in SeqsUpTo(ActionItemTexts, ListBound(MaxItems))}

NoAnswer == [kind |-> "none"]
NoRec == [entities |-> NoAnswer, connections |-> NoAnswer, items |-> NoAnswer]

\* A re-invocation is given the answers of the first pass.
Answer(recorded, all) == IF recorded.kind = "none" THEN all ELSE {recorded}

-----------------------------------------------------------------------------
(* Mongoose documents held by a call: the _id and the values pushed on     *)
(* their arrays since they were loaded.  save() sends the pushed values as *)
(* a $push, which MongoDB appends to the stored array.                     *)

NoDoc == [id |-> "none", pushed |-> <<>>, pushed2 |-> <<>>]
Doc(id) == [id |-> id, pushed |-> <<>>, pushed2 |-> <<>>]

NoLoc ==
  [people |-> {}, docs |-> <<>>, i |-> 0, allNotes |-> <<>>,
   allMeetings |-> <<>>, connections |-> NoAnswer, doc |-> NoDoc,
   items |-> <<>>, now |-> 0, dueDate |-> 0, content |-> <<>>,
   summary |-> NoAnswer]

set(stored, pushed) == pushed

\* MongoDB $push
push(stored, pushed) == stored \o pushed

-----------------------------------------------------------------------------
(* Control *)

\* no second call is in flight
NoOther == [pc |-> "none"]

Goto(p) == pc' = p /\ UNCHANGED <<outcome, caught, passes, clean, calls, other>>

Step(p) == Goto(p) /\ UNCHANGED store

\* the method returns after its last statement
ReturnOk ==
  /\ pc' = "done"
  /\ outcome' = "returned"
  /\ passes' = passes + 1
  /\ UNCHANGED <<caught, clean, calls, other>>

\* the method's promise resolves from its catch block
Swallow ==
  /\ pc' = "done"
  /\ outcome' = "returned"
  /\ caught' = TRUE
  /\ clean' = FALSE
  /\ passes' = passes + 1
  /\ UNCHANGED <<calls, other>>

\* the method's promise rejects from its catch block
Rethrow ==
  /\ pc' = "done"
  /\ outcome' = "raised"
  /\ caught' = TRUE
  /\ clean' = FALSE
  /\ passes' = passes + 1
  /\ UNCHANGED <<calls, other>>

CatchRethrows == Rethrow /\ UNCHANGED store

CatchRollsBack ==
  /\ Swallow
  /\ persons' = before.persons
  /\ notes' = before.notes
  /\ meetings' = before.meetings
  /\ reminders' = before.reminders

\* linkNoteToEntities: catch (error) { logger.error(...) }
linkNoteCatch == Swallow /\ UNCHANGED store

Snapshot ==
  [persons |-> persons, notes |-> notes, meetings |-> meetings,
   reminders |-> reminders]

\* a pass is entered: nothing of it has run
Enter(p) ==
  /\ pc' = p
  /\ loc' = NoLoc
  /\ before' = Snapshot
  /\ saved' = {}
  /\ outcome' = "none"
  /\ caught' = FALSE
  /\ aiCalls' = 0
  /\ result' = <<>>
  /\ UNCHANGED store

Begin(p) == Enter(p) /\ UNCHANGED <<passes, clean, calls, other>>

-----------------------------------------------------------------------------
(* linkNoteToEntities(userId, noteId, noteContent) *)

NoDate == 0 - 1
UserArgs == {"u1", BadId}
NoteArgs == {"n1", "n4", "nX", BadId}
TextArgs == {EmptyText, <<"m", "J", "o">>}

\* connection.score > 0.6
IsRelatedGE(score) == score >= LinkThreshold
IsRelated(score) == score > LinkThreshold

\* Person.find({userId, name: {$in: people}})
FindPeople(userId, people) ==
  SelectSeq(PersonOrder,
            LAMBDA p : persons[p].userId = userId /\ persons[p].name \in people)

FindNotesOfUser(userId, noteId) ==
  SelectSeq(NoteOrder, LAMBDA n : notes[n].userId = userId)

\* Note.find({userId, _id: {$ne: noteId}})
FindOtherNotes(userId, noteId) ==
  SelectSeq(NoteOrder, LAMBDA n : notes[n].userId = userId /\ n # noteId)
    \o SelectSeq(BulkOf(userId, BulkNotes), LAMBDA n : n # noteId)

\* for (const connection of connections) { ... linkedEntities.push(...) }
\* throws when allNotes[connection.index] is undefined
RECURSIVE pushRelated(_, _, _)
pushRelated(conns, all, acc) ==
  IF conns = <<>> THEN [throws |-> FALSE, ids |-> acc]
  ELSE LET c == Head(conns) IN
       IF IsRelated(c.score)
       THEN IF c.index + 1 \in 1..Len(all)
            THEN pushRelated(Tail(conns), all, Append(acc, all[c.index + 1]))
            ELSE [throws |-> TRUE, ids |-> acc]
       ELSE pushRelated(Tail(conns), all, acc)

relatedIdsInRange(answer, all) ==
  LET valid == SelectSeq(answer.list,
                 LAMBDA c : IsRelated(c.score) /\ c.index + 1 \in 1..Len(all))
  IN [throws |-> answer.kind = "malformed",
      ids |-> [k \in 1..Len(valid) |-> all[valid[k].index + 1]]]

\* the loop over a reply of findConnections; a reply that is no array is not iterable
relatedIds(answer, all) ==
  IF answer.kind = "malformed" THEN [throws |-> TRUE, ids |-> <<>>]
  ELSE pushRelated(answer.list, all, <<>>)

linkNoteToEntities ==
  /\ pc = "idle"
  /\ \E u \in UserArgs, n \in NoteArgs, t \in TextArgs :
       op' = [name |-> "linkNote", userId |-> u, id |-> n, text |-> t,
              date |-> NoDate]
  /\ Begin("n_extract")
  /\ UNCHANGED rec

\* line 37: new ObjectId(userId) throws before the query is sent
n_issueNoteFind ==
  IF ObjectIdThrows(op.userId) THEN linkNoteCatch ELSE Step("n_noteFind")

\* line 20 returns; lines 23-27
n_extractEntities ==
  /\ pc = "n_extract"
  /\ \E e \in Answer(rec.entities, EntityAnswers) :
       /\ rec' = [rec EXCEPT !.entities = e]
       /\ loc' = [loc EXCEPT !.people = e.people]
       /\ IF e.kind # "ok" THEN linkNoteCatch
          ELSE IF e.people # {}
               THEN IF ObjectIdThrows(op.userId) THEN linkNoteCatch
                    ELSE Step("n_personFind")
               ELSE n_issueNoteFind
  /\ UNCHANGED <<op, result, aiCalls, before, saved>>

n_PersonFindOrCreate ==
  /\ pc = "n_personFind"
  /\ persons' = [p \in PersonIds \cup {"p5"} |->
                   IF p \in PersonIds THEN persons[p]
                   ELSE [userId |-> op.userId,
                         name |-> CHOOSE name \in loc.people : TRUE,
                         linkedNotes |-> <<op.id>>, meetings |-> <<>>]]
  /\ UNCHANGED <<notes, meetings, reminders>>
  /\ Goto("n_noteFind")
  /\ UNCHANGED <<op, loc, result, aiCalls, before, saved, rec>>

\* line 24 returns; lines 30-32 for the first person
n_PersonFind ==
  /\ pc = "n_personFind"
  /\ \/ linkNoteCatch /\ UNCHANGED loc
     \/ LET found == FindPeople(op.userId, loc.people) IN
        IF found = <<>> THEN n_issueNoteFind /\ UNCHANGED loc
        ELSE IF ObjectIdThrows(op.id) THEN linkNoteCatch /\ UNCHANGED loc
        ELSE /\ Step("n_personSave")
             /\ loc' = [loc EXCEPT
                  !.docs = [k \in 1..Len(found) |->
                              IF k = 1 THEN [Doc(found[k]) EXCEPT !.pushed = <<op.id>>]
                              ELSE Doc(found[k])],
                  !.i = 1]
  /\ UNCHANGED <<op, result, aiCalls, before, saved, rec>>

\* line 32 returns; lines 30-32 for the next person, or line 37
n_personSave ==
  /\ pc = "n_personSave"
  /\ LET d == loc.docs[loc.i] IN
     \/ linkNoteCatch /\ UNCHANGED <<loc, saved>>
     \/ /\ persons' = [persons EXCEPT ![d.id].linkedNotes = push(@, d.pushed)]
        /\ UNCHANGED <<notes, meetings, reminders>>
        /\ saved' = saved \cup {d.id}
        /\ IF loc.i < Len(loc.docs)
           THEN /\ Goto("n_personSave")
                /\ loc' = [loc EXCEPT !.i = @ + 1,
                                      !.docs[loc.i + 1].pushed = <<op.id>>]
           ELSE Goto("n_noteFind") /\ UNCHANGED loc
  /\ UNCHANGED <<op, result, aiCalls, before, rec>>

\* line 37 returns; lines 42-43
n_NoteFind ==
  /\ pc = "n_noteFind"
  /\ \/ linkNoteCatch /\ UNCHANGED loc
     \/ /\ ~ObjectIdThrows(op.id)
        /\ LET all == limit(FindOtherNotes(op.userId, op.id), NoteWindow) IN
           /\ loc' = [loc EXCEPT !.allNotes = all]
           /\ IF Len(all) > 0 THEN Step("n_findConn")
              ELSE ReturnOk /\ UNCHANGED store
  /\ UNCHANGED <<op, result, aiCalls, before, saved, rec>>

\* line 43 returns; line 48
n_findConnections ==
  /\ pc = "n_findConn"
  /\ \E c \in Answer(rec.connections, ConnectionAnswers) :
       /\ rec' = [rec EXCEPT !.connections = c]
       /\ IF c.kind = "fail" THEN linkNoteCatch /\ UNCHANGED loc
          ELSE Step("n_findById") /\ loc' = [loc EXCEPT !.connections = c]
  /\ UNCHANGED <<op, result, aiCalls, before, saved>>

\* line 48 returns; lines 49-56
n_NoteFindById ==
  /\ pc = "n_findById"
  /\ \/ linkNoteCatch /\ UNCHANGED loc
     \/ /\ op.id \notin NoteIds
        /\ ReturnOk /\ UNCHANGED <<store, loc>>
     \/ /\ op.id \in NoteIds
        /\ LET r == relatedIds(loc.connections, loc.allNotes) IN
           IF r.throws THEN linkNoteCatch /\ UNCHANGED loc
           ELSE /\ Step("n_noteSave")
                /\ loc' = [loc EXCEPT !.doc = [Doc(op.id) EXCEPT !.pushed = r.ids]]
  /\ UNCHANGED <<op, result, aiCalls, before, saved, rec>>

\* line 56 returns; line 60
n_noteSave ==
  /\ pc = "n_noteSave"
  /\ \/ linkNoteCatch /\ UNCHANGED saved
     \/ /\ notes' = [notes EXCEPT
                       ![loc.doc.id].linkedEntities = push(@, loc.doc.pushed)]
        /\ UNCHANGED <<persons, meetings, reminders>>
        /\ saved' = saved \cup {loc.doc.id}
        /\ ReturnOk
  /\ UNCHANGED <<op, loc, result, aiCalls, before, rec>>

linkNoteSteps ==
  \/ n_extractEntities
  \/ n_PersonFind
  \/ n_personSave
  \/ n_NoteFind
  \/ n_findConnections
  \/ n_NoteFindById
  \/ n_noteSave

-----------------------------------------------------------------------------
(* linkPersonToRelevantData(userId, personId, personName) *)

PersonArgs == {"p1", "p3", "p4", "pX", BadId}
NameArgs == {Jo, an}

\* linkPersonToRelevantData: catch (error) { logger.error(...) }
linkPersonCatch == Swallow /\ UNCHANGED store

\* Note.find({userId}) and Meeting.find({userId})
FindNotes(userId) ==
  SelectSeq(NoteOrder, LAMBDA n : notes[n].userId = userId)
    \o BulkOf(userId, BulkNotes)
FindMeetings(userId) ==
  SelectSeq(MeetingOrder, LAMBDA m : meetings[m].userId = userId)
    \o BulkOf(userId, BulkMeetings)

\* note.content.toLowerCase().includes(personName.toLowerCase())
mentions(text, personName) == includes(toLowerCase(text), toLowerCase(personName))

pushAll(ids, linked, acc) == ids

\* lines 87-93 and 96-102: the ids pushed on an array that holds `linked`
RECURSIVE pushAbsent(_, _, _)
pushAbsent(ids, linked, acc) ==
  IF ids = <<>> THEN acc
  ELSE IF Head(ids) \in Range(linked) \cup Range(acc)
       THEN pushAbsent(Tail(ids), linked, acc)
       ELSE pushAbsent(Tail(ids), linked, Append(acc, Head(ids)))

linkPersonToRelevantData ==
  /\ pc = "idle"
  /\ \E u \in UserArgs, p \in PersonArgs, t \in NameArgs :
       op' = [name |-> "linkPerson", userId |-> u, id |-> p, text |-> t,
              date |-> NoDate]
  /\ Begin("p_noteFind")
  /\ UNCHANGED rec

\* line 75 returns (new ObjectId(userId) throws before the query is sent)
p_NoteFind ==
  /\ pc = "p_noteFind"
  /\ \/ linkPersonCatch /\ UNCHANGED loc
     \/ /\ ~ObjectIdThrows(op.userId)
        /\ loc' = [loc EXCEPT !.allNotes = limit(FindNotes(op.userId), PersonWindow)]
        /\ Step("p_meetingFind")
  /\ UNCHANGED <<op, result, aiCalls, before, saved, rec>>

\* line 79 returns
p_MeetingFind ==
  /\ pc = "p_meetingFind"
  /\ \/ linkPersonCatch /\ UNCHANGED loc
     \/ /\ loc' = [loc EXCEPT
                     !.allMeetings = limit(FindMeetings(op.userId), PersonWindow)]
        /\ Step("p_findById")
  /\ UNCHANGED <<op, result, aiCalls, before, saved, rec>>

\* line 83 returns; lines 84-104
p_PersonFindById ==
  /\ pc = "p_findById"
  /\ \/ linkPersonCatch /\ UNCHANGED loc
     \/ /\ ~ObjectIdThrows(op.id)
        /\ op.id \notin PersonIds
        /\ ReturnOk /\ UNCHANGED <<store, loc>>
     \/ /\ op.id \in PersonIds
        /\ LET person == persons[op.id]
               hitNotes == SelectSeq(loc.allNotes,
                             LAMBDA n : mentions(notes[n].content, op.text))
               hitMeetings == SelectSeq(loc.allMeetings,
                                LAMBDA m : mentions(meetings[m].title, op.text))
           IN loc' = [loc EXCEPT !.doc =
                        [id |-> op.id,
                         pushed |-> pushAbsent(hitNotes, person.linkedNotes, <<>>),
                         pushed2 |-> pushAbsent(hitMeetings, person.meetings, <<>>)]]
        /\ Step("p_personSave")
  /\ UNCHANGED <<op, result, aiCalls, before, saved, rec>>

\* line 104 returns; line 105
p_personSave ==
  /\ pc = "p_personSave"
  /\ \/ linkPersonCatch /\ UNCHANGED saved
     \/ /\ persons' = [persons EXCEPT
                         ![loc.doc.id].linkedNotes = push(@, loc.doc.pushed),
                         ![loc.doc.id].meetings = push(@, loc.doc.pushed2)]
        /\ UNCHANGED <<notes, meetings, reminders>>
        /\ saved' = saved \cup {loc.doc.id}
        /\ ReturnOk
  /\ UNCHANGED <<op, loc, result, aiCalls, before, rec>>

linkPersonSteps ==
  \/ p_NoteFind
  \/ p_MeetingFind
  \/ p_PersonFindById
  \/ p_personSave

-----------------------------------------------------------------------------
(* linkMeetingToData(userId, meetingId, meetingNotes) *)

MeetingUserArgs == Users \cup {BadId}
MeetingArgs == {"m1", "m2", "mX", BadId}
MeetingTextArgs == {<<"y">>}

\* linkMeetingToData: catch (error) { logger.error(...) }
linkMeetingCatch == Swallow /\ UNCHANGED store

linkMeetingToData ==
  /\ pc = "idle"
  /\ \E u \in MeetingUserArgs, m \in MeetingArgs, t \in MeetingTextArgs :
       op' = [name |-> "linkMeeting", userId |-> u, id |-> m, text |-> t,
              date |-> NoDate]
  /\ Begin("m_actionItems")
  /\ UNCHANGED rec

\* line 121 returns; line 123
m_generateActionItems ==
  /\ pc = "m_actionItems"
  /\ \E a \in Answer(rec.items, ActionItemAnswers) :
       /\ rec' = [rec EXCEPT !.items = a]
       /\ IF a.kind = "fail" THEN linkMeetingCatch /\ UNCHANGED loc
          ELSE Step("m_findById") /\ loc' = [loc EXCEPT !.items = a.list]
  /\ UNCHANGED <<op, result, aiCalls, before, saved>>

\* line 123 returns; lines 124-126, or line 130 when there is no meeting
m_MeetingFindById ==
  /\ pc = "m_findById"
  /\ \/ linkMeetingCatch /\ UNCHANGED loc
     \/ /\ ~ObjectIdThrows(op.id)
        /\ op.id \notin MeetingIds
        /\ Step("m_noteFind") /\ UNCHANGED loc
     \/ /\ op.id \in MeetingIds
        /\ loc' = [loc EXCEPT !.doc = Doc(op.id)]
        /\ Step("m_save1")
  /\ UNCHANGED <<op, result, aiCalls, before, saved, rec>>

appendActionItems(previous, derived) == previous \o derived

\* meeting.actionItems = actionItems
assignActionItems(previous, derived) == derived

\* line 126 returns; line 130
m_meetingSaveItems ==
  /\ pc = "m_save1"
  /\ \/ linkMeetingCatch /\ UNCHANGED saved
     \/ /\ meetings' = [meetings EXCEPT ![loc.doc.id].actionItems =
                                           assignActionItems(@, loc.items)]
        /\ UNCHANGED <<persons, notes, reminders>>
        /\ saved' = saved \cup {loc.doc.id}
        /\ Goto("m_noteFind")
  /\ UNCHANGED <<op, loc, result, aiCalls, before, rec>>

\* line 130 returns (new ObjectId(userId) throws before the query is sent);
\* lines 134-135
m_NoteFind ==
  /\ pc = "m_noteFind"
  /\ \/ linkMeetingCatch /\ UNCHANGED loc
     \/ /\ ~ObjectIdThrows(op.userId)
        /\ LET all == limit(FindNotes(op.userId), NoteWindow) IN
           /\ loc' = [loc EXCEPT !.allNotes = all]
           /\ IF Len(all) > 0 THEN Step("m_findConn")
              ELSE ReturnOk /\ UNCHANGED store
  /\ UNCHANGED <<op, result, aiCalls, before, saved, rec>>

\* line 135 returns; lines 140-147
m_findConnections ==
  /\ pc = "m_findConn"
  /\ \E c \in Answer(rec.connections, ConnectionAnswers) :
       /\ rec' = [rec EXCEPT !.connections = c]
       /\ IF c.kind = "fail" THEN linkMeetingCatch /\ UNCHANGED loc
          ELSE IF loc.doc.id = NoDoc.id
               THEN /\ ReturnOk /\ UNCHANGED store
                    /\ loc' = [loc EXCEPT !.connections = c]
          ELSE LET r == relatedIds(c, loc.allNotes) IN
               IF r.throws
               THEN linkMeetingCatch /\ loc' = [loc EXCEPT !.connections = c]
               ELSE /\ Step("m_save2")
                    /\ loc' = [loc EXCEPT !.connections = c, !.doc.pushed = r.ids]
  /\ UNCHANGED <<op, result, aiCalls, before, saved>>

\* line 147 returns; line 151
m_meetingSaveLinks ==
  /\ pc = "m_save2"
  /\ \/ linkMeetingCatch
     \/ /\ meetings' = [meetings EXCEPT
                          ![loc.doc.id].linkedNotes = push(@, loc.doc.pushed)]
        /\ UNCHANGED <<persons, notes, reminders>>
        /\ ReturnOk
  /\ UNCHANGED <<op, loc, result, aiCalls, before, saved, rec>>

linkMeetingSteps ==
  \/ m_generateActionItems
  \/ m_MeetingFindById
  \/ m_meetingSaveItems
  \/ m_NoteFind
  \/ m_findConnections
  \/ m_meetingSaveLinks

-----------------------------------------------------------------------------
(* createRemindersFromActionItems(userId, meetingId) *)

ReminderMeetingArgs == {"m1", "m2", "m3", "mX", BadId}

\* createRemindersFromActionItems: catch (error) { logger.error(...) }
remindersCatch == Swallow /\ UNCHANGED store

\* threeDaysFromNow.setDate(threeDaysFromNow.getDate() + 3)
threeTicksFrom(now) == now + ReminderOffsetDays
threeDaysFrom(now) == now + ReminderOffsetDays * TicksPerDay

\* new Reminder({...}), with the schema's default for completed
NewReminderUntitled(userId, actionItem, dueDate, meetingId) ==
  [userId |-> userId, title |-> <<>>, dueDate |-> dueDate, type |-> "task",
   priority |-> "high", linkedEntity |-> meetingId,
   linkedEntityType |-> "Meeting", completed |-> FALSE]
NewReminder(userId, actionItem, dueDate, meetingId) ==
  [userId |-> userId, title |-> actionItem, dueDate |-> dueDate,
   type |-> "task", priority |-> "high", linkedEntity |-> meetingId,
   linkedEntityType |-> "Meeting", completed |-> FALSE]

createRemindersFromActionItems ==
  /\ pc = "idle"
  /\ \E u \in UserArgs, m \in ReminderMeetingArgs :
       op' = [name |-> "createReminders", userId |-> u, id |-> m,
              text |-> EmptyText, date |-> NoDate]
  /\ Begin("r_findById")
  /\ UNCHANGED rec

\* line 165 returns; lines 166-182 for the first action item
r_MeetingFindById ==
  /\ pc = "r_findById"
  /\ \/ remindersCatch /\ UNCHANGED loc
     \/ /\ ~ObjectIdThrows(op.id)
        /\ \/ op.id \notin MeetingIds
           \/ op.id \in MeetingIds /\ Len(meetings[op.id].actionItems) = 0
        /\ ReturnOk /\ UNCHANGED <<store, loc>>
     \/ /\ op.id \in MeetingIds
        /\ Len(meetings[op.id].actionItems) # 0
        /\ \E now \in Clock :
             loc' = [loc EXCEPT !.items = meetings[op.id].actionItems,
                                !.now = now,
                                !.dueDate = threeDaysFrom(now),
                                !.i = 1]
        /\ IF ObjectIdThrows(op.userId) THEN remindersCatch
           ELSE Step("r_save")
  /\ UNCHANGED <<op, result, aiCalls, before, saved, rec>>

\* line 182 returns; lines 171-182 for the next action item, or line 185
r_reminderSave ==
  /\ pc = "r_save"
  /\ \/ remindersCatch /\ UNCHANGED loc
     \/ /\ reminders' = Append(reminders,
             NewReminder(op.userId, loc.items[loc.i], loc.dueDate, op.id))
        /\ UNCHANGED <<persons, notes, meetings>>
        /\ IF loc.i < Len(loc.items)
           THEN Goto("r_save") /\ loc' = [loc EXCEPT !.i = @ + 1]
           ELSE ReturnOk /\ UNCHANGED loc
  /\ UNCHANGED <<op, result, aiCalls, before, saved, rec>>

createRemindersSteps ==
  \/ r_MeetingFindById
  \/ r_reminderSave

-----------------------------------------------------------------------------
(* SummaryService.generateDailySummary(userId, date?) *)

Sentinel == <<"No activity recorded for today.">>

\* AIService.generateDailySummary resolves with the model's text
SummaryAnswers == {<<"s">>, Sentinel}

summaryCatchQuiet == Swallow /\ UNCHANGED store

\* generateDailySummary: catch (error) { logger.error(...); throw error; }
summaryCatch == Rethrow /\ UNCHANGED store

\* dayStart.setHours(0, 0, 0, 0) and dayEnd.setHours(23, 59, 59, 999)
dayStart(t) == t - (t % TicksPerDay)
dayEnd(t) == dayStart(t) + TicksPerDay - 1

\* Note.find({userId, createdAt: {$gte: dayStart, $lte: dayEnd}})
FindNotesOfDay(userId, t) ==
  SelectSeq(NoteOrder, LAMBDA n : /\ notes[n].userId = userId
                                  /\ notes[n].createdAt >= dayStart(t)
                                  /\ notes[n].createdAt <= dayEnd(t))

\* Meeting.find({userId, date: {$gte: dayStart, $lte: dayEnd}})
FindMeetingsOfDay(userId, t) ==
  SelectSeq(MeetingOrder, LAMBDA m : /\ meetings[m].userId = userId
                                     /\ meetings[m].date >= dayStart(t)
                                     /\ meetings[m].date <= dayEnd(t))

\* Array.prototype.join("\n") over the rendered lines
RECURSIVE joinLines(_)
joinLines(lines) ==
  IF lines = <<>> THEN <<>>
  ELSE IF Len(lines) = 1 THEN Head(lines)
  ELSE Head(lines) \o <<"\n">> \o joinLines(Tail(lines))

noteLine(n) == <<"- ">> \o notes[n].title \o <<": ">> \o notes[n].content

meetingLine(m) ==
  <<"- ">> \o meetings[m].title \o <<" at ", "HH:mm", ": ">>
    \o (IF meetings[m].notes # <<>> THEN meetings[m].notes
        ELSE meetings[m].description)

\* lines 34-51
compileNotesOnly(ns, ms) ==
  IF Len(ns) > 0
  THEN <<"## Notes from today\n">> \o joinLines([k \in 1..Len(ns) |-> noteLine(ns[k])])
         \o <<"\n\n">>
  ELSE <<>>
compile(ns, ms) ==
  (IF Len(ns) > 0
   THEN <<"## Notes from today\n">>
          \o joinLines([k \in 1..Len(ns) |-> noteLine(ns[k])]) \o <<"\n\n">>
   ELSE <<>>)
  \o
  (IF Len(ms) > 0
   THEN <<"## Meetings\n">>
          \o joinLines([k \in 1..Len(ms) |-> meetingLine(ms[k])]) \o <<"\n\n">>
   ELSE <<>>)

generateDailySummary ==
  /\ pc = "idle"
  /\ \E u \in Users \cup {BadId}, d \in Clock \cup {NoDate} :
       op' = [name |-> "dailySummary", userId |-> u, id |-> "none",
              text |-> EmptyText, date |-> d]
  /\ Begin("d_noteFind")
  /\ UNCHANGED rec

\* lines 14-20 (new ObjectId(userId) throws before the query is sent);
\* line 23 returns
d_NoteFind ==
  /\ pc = "d_noteFind"
  /\ \/ summaryCatch /\ UNCHANGED loc
     \/ /\ ~ObjectIdThrows(op.userId)
        /\ \E now \in (IF op.date = NoDate THEN Clock ELSE {op.date}) :
             loc' = [loc EXCEPT !.now = now,
                                !.allNotes = FindNotesOfDay(op.userId, now)]
        /\ Step("d_meetingFind")
  /\ UNCHANGED <<op, result, aiCalls, before, saved, rec>>

\* line 28 returns; lines 34-58
d_MeetingFind ==
  /\ pc = "d_meetingFind"
  /\ \/ summaryCatch /\ UNCHANGED <<loc, result, aiCalls>>
     \/ LET ms == FindMeetingsOfDay(op.userId, loc.now)
            compiledContent == compile(loc.allNotes, ms)
        IN /\ loc' = [loc EXCEPT !.allMeetings = ms, !.content = compiledContent]
           /\ UNCHANGED store
           /\ IF Len(compiledContent) = 0
              THEN /\ result' = Sentinel
                   /\ ReturnOk
                   /\ UNCHANGED aiCalls
              ELSE /\ aiCalls' = aiCalls + 1
                   /\ Goto("d_summary")
                   /\ UNCHANGED result
  /\ UNCHANGED <<op, before, saved, rec>>

\* line 58 returns; lines 59-60
d_generateDailySummary ==
  /\ pc = "d_summary"
  /\ \/ /\ summaryCatch
        /\ loc' = [loc EXCEPT !.summary = [kind |-> "fail", text |-> <<>>]]
        /\ UNCHANGED result
     \/ /\ \E summary \in SummaryAnswers :
             /\ loc' = [loc EXCEPT !.summary = [kind |-> "ok", text |-> summary]]
             /\ result' = summary
        /\ ReturnOk /\ UNCHANGED store
  /\ UNCHANGED <<op, aiCalls, before, saved, rec>>

dailySummarySteps ==
  \/ d_NoteFind
  \/ d_MeetingFind
  \/ d_generateDailySummary

-----------------------------------------------------------------------------
\* the caller re-invokes the method with the same arguments
Retry ==
  /\ pc = "done"
  /\ passes < MaxPasses
  /\ Begin(CASE op.name = "linkNote" -> "n_extract"
             [] op.name = "linkPerson" -> "p_noteFind"
             [] op.name = "linkMeeting" -> "m_actionItems"
             [] op.name = "createReminders" -> "r_findById"
             [] OTHER -> "d_noteFind")
  /\ UNCHANGED <<op, rec>>

Init ==
  /\ persons = InitPersons
  /\ notes = InitNotes
  /\ meetings = InitMeetings
  /\ reminders = <<>>
  /\ pc = "idle"
  /\ op = [name |-> "none", userId |-> "u1", id |-> "n1", text |-> EmptyText,
           date |-> NoDate]
  /\ loc = NoLoc
  /\ outcome = "none"
  /\ caught = FALSE
  /\ result = <<>>
  /\ aiCalls = 0
  /\ rec = NoRec
  /\ passes = 0
  /\ before = Snapshot
  /\ saved = {}
  /\ clean = TRUE
  /\ calls = 0
  /\ other = NoOther

Next ==
  \/ linkNoteToEntities
  \/ linkNoteSteps
  \/ linkPersonToRelevantData
  \/ linkPersonSteps
  \/ linkMeetingToData
  \/ linkMeetingSteps
  \/ createRemindersFromActionItems
  \/ createRemindersSteps
  \/ generateDailySummary
  \/ dailySummarySteps
  \/ Retry

Spec == Init /\ [][Next]_vars

-----------------------------------------------------------------------------
(* A caller that awaits each call before it makes the next one *)

EntryPoint(name) ==
  CASE name = "linkNote" -> "n_extract"
    [] name = "linkPerson" -> "p_noteFind"
    [] name = "linkMeeting" -> "m_actionItems"
    [] name = "createReminders" -> "r_findById"
    [] OTHER -> "d_noteFind"

Call(name, userId, id, text) ==
  [name |-> name, userId |-> userId, id |-> id, text |-> text, date |-> NoDate]

\* the calls of a sequence: records that exist, linked by their owner
SeqCalls ==
  {Call("linkNote", "u1", n, <<"m", "J", "o">>) : n \in {"n1", "n2"}}
    \cup {Call("linkPerson", "u1", "p1", Jo), Call("linkPerson", "u1", "p3", an)}
    \cup {Call("linkMeeting", "u1", "m1", <<"y">>)}

NextCall ==
  /\ pc \in {"idle", "done"}
  /\ calls < MaxCalls
  /\ \E c \in SeqCalls : op' = c /\ Enter(EntryPoint(c.name))
  /\ calls' = calls + 1
  /\ rec' = NoRec
  /\ passes' = 0
  /\ clean' = TRUE
  /\ UNCHANGED other

NextSeq ==
  \/ NextCall
  \/ linkNoteSteps
  \/ linkPersonSteps
  \/ linkMeetingSteps

SpecSeq == Init /\ [][NextSeq]_vars

-----------------------------------------------------------------------------
(* A caller that makes two calls without awaiting the first.  One call     *)
(* runs at a time; at an await the thread may take up the other call.      *)

\* the state of a call that has been entered and has not run yet
Entered(c) ==
  [pc |-> EntryPoint(c.name), op |-> c, loc |-> NoLoc, outcome |-> "none",
   caught |-> FALSE, result |-> <<>>, aiCalls |-> 0, rec |-> NoRec,
   passes |-> 0, before |-> Snapshot, saved |-> {}, clean |-> TRUE]

\* two notes that name the same Person; a note and a Person it names
ConcurrentPairs ==
  {<<Call("linkNote", "u1", "n1", <<"m", "J", "o">>),
     Call("linkNote", "u1", "n2", <<"j", "o", "x">>)>>,
   <<Call("linkNote", "u1", "n1", <<"m", "J", "o">>),
     Call("linkPerson", "u1", "p1", Jo)>>}

StartPair ==
  /\ pc = "idle"
  /\ \E pair \in ConcurrentPairs :
       /\ op' = pair[1]
       /\ Enter(EntryPoint(pair[1].name))
       /\ other' = Entered(pair[2])
  /\ calls' = 2
  /\ rec' = NoRec
  /\ passes' = 0
  /\ clean' = TRUE

\* the running call is suspended at an await and the other call resumes
Switch ==
  /\ pc # "idle"
  /\ other.pc \notin {"none", "done"}
  /\ pc' = other.pc
  /\ op' = other.op
  /\ loc' = other.loc
  /\ outcome' = other.outcome
  /\ caught' = other.caught
  /\ result' = other.result
  /\ aiCalls' = other.aiCalls
  /\ rec' = other.rec
  /\ passes' = other.passes
  /\ before' = other.before
  /\ saved' = other.saved
  /\ clean' = other.clean
  /\ other' = [pc |-> pc, op |-> op, loc |-> loc, outcome |-> outcome,
               caught |-> caught, result |-> result, aiCalls |-> aiCalls,
               rec |-> rec, passes |-> passes, before |-> before,
               saved |-> saved, clean |-> clean]
  /\ UNCHANGED <<store, calls>>

NextConc ==
  \/ StartPair
  \/ linkNoteSteps
  \/ linkPersonSteps
  \/ Switch

SpecConc == Init /\ [][NextConc]_vars

-----------------------------------------------------------------------------
(* Calls whose candidate window is cut by limit(), or is empty *)

\* "u4" is an owner of no record
WindowCalls ==
  SeqCalls \cup
  {Call("linkNote", HeavyUser, "nX", <<"m", "J", "o">>),
   Call("linkPerson", HeavyUser, "pX", Jo),
   Call("linkMeeting", HeavyUser, "mX", <<"y">>),
   Call("linkNote", "u2", "n4", <<"J", "o">>),
   Call("linkMeeting", "u4", "m1", <<"y">>)}

WindowCall ==
  /\ pc = "idle"
  /\ \E c \in WindowCalls : op' = c /\ Enter(EntryPoint(c.name))
  /\ calls' = calls + 1
  /\ UNCHANGED <<rec, passes, clean, other>>

NextWindow ==
  \/ WindowCall
  \/ linkNoteSteps
  \/ linkPersonSteps
  \/ linkMeetingSteps

SpecWindow == Init /\ [][NextWindow]_vars

-----------------------------------------------------------------------------
(* Properties *)

Done(name) == pc = "done" /\ op.name = name

LinkingMethods == {"linkNote", "linkPerson", "linkMeeting"}

\* C1: running linkNote twice with identical arguments and identical
\* extraction and matcher answers leaves every Person's linkedNotes and the
\* note's linkedEntities as a single run leaves them, and no id occurs twice
\* in either collection.
C1_LinkNoteIdempotent ==
  (Done("linkNote") /\ passes >= 2 /\ clean) =>
    /\ persons = before.persons
    /\ notes = before.notes
    /\ \A p \in PersonIds : NoDuplicates(persons[p].linkedNotes)
    /\ \A n \in NoteIds : NoDuplicates(notes[n].linkedEntities)

\* the candidate note a connection of the matcher's answer names
Candidate(c) == loc.allNotes[c.index + 1]
NamesCandidate(c) == c.index + 1 \in 1..Len(loc.allNotes)

\* C2: after a pass of linkNote that ran to its end for an existing note,
\* every candidate the matcher scored above 0.6 is in the note's
\* linkedEntities, and a candidate scored 0.6 or lower only was not added by
\* the pass.
C2_ThresholdCorrect ==
  (Done("linkNote") /\ ~caught /\ op.id \in NoteIds
     /\ loc.connections.kind = "ok") =>
    LET conns == loc.connections.list
        linked == notes[op.id].linkedEntities
        linkedBefore == before.notes[op.id].linkedEntities
    IN /\ \A k \in 1..Len(conns) :
            (NamesCandidate(conns[k]) /\ conns[k].score > LinkThreshold)
              => Candidate(conns[k]) \in Range(linked)
       /\ \A n \in Range(loc.allNotes) :
            (\A k \in 1..Len(conns) :
               (NamesCandidate(conns[k]) /\ Candidate(conns[k]) = n)
                 => conns[k].score <= LinkThreshold)
              => Count(linked, n) = Count(linkedBefore, n)

C2_Witness ==
  /\ Done("linkNote") /\ ~caught /\ op.id = "n1"
  /\ loc.connections.kind = "ok"
  /\ loc.connections.list = <<[index |-> 0, score |-> 7], [index |-> 1, score |-> 6]>>
  /\ notes["n1"].linkedEntities = <<"n3", "n2">>

\* C3: linkNote, linkPerson and linkMeeting return normally whichever remote
\* or persistence call fails, and a pass that is suspended at a call can
\* always take its next step when that call returns or fails.
C3_AlwaysReturns ==
  /\ (pc = "done" /\ op.name \in LinkingMethods) => outcome = "returned"
  /\ (pc \notin {"idle", "done"} /\ op.name \in LinkingMethods) =>
       ENABLED (linkNoteSteps \/ linkPersonSteps \/ linkMeetingSteps)

C3_Witness ==
  /\ Done("linkNote") /\ outcome = "returned" /\ caught
  /\ rec.connections.kind = "fail"
  /\ saved # {}

\* C4: a call of linkNote, linkPerson or linkMeeting with an ownerId or a
\* record id that is no valid id raises an error to its caller.
C4_InvalidInputRaises ==
  (pc = "done" /\ op.name \in LinkingMethods
     /\ (ObjectIdThrows(op.userId) \/ ObjectIdThrows(op.id)))
    => outcome = "raised"

\* C5: when the entity extraction of linkNote fails, the pass goes on to the
\* candidate query of the similarity step.
C5_ExtractionFailsSoft ==
  [][(pc = "n_extract" /\ op.userId \in Users /\ rec'.entities.kind # "ok")
       => pc' = "n_noteFind"]_vars

\* C6: when saving one matched Person fails in linkNote, the pass goes on to
\* the next matched Person or to the similarity step.
C6_PersonSaveFailureIsolated ==
  [][(pc = "n_personSave" /\ persons' = persons)
       => pc' \in {"n_personSave", "n_noteFind"}]_vars

\* C7: every Person link linkNote persisted is still in the store when the
\* call has returned, whatever failed afterwards.
C7_NoRollback ==
  Done("linkNote") =>
    \A p \in saved \cap PersonIds :
      persons[p].linkedNotes = before.persons[p].linkedNotes \o <<op.id>>

C7_Witness ==
  /\ Done("linkNote") /\ caught
  /\ saved = {"p1"}
  /\ persons["p1"].linkedNotes = <<"n1">>

\* C8: linkNote called with empty text mutates no record and raises nothing.
C8_EmptyTextNoMutation ==
  (Done("linkNote") /\ op.text = EmptyText) =>
    /\ persons = before.persons
    /\ notes = before.notes
    /\ meetings = before.meetings
    /\ reminders = before.reminders
    /\ outcome = "returned"

\* the notes and meetings of the owner on the calendar day of the summary
WindowNotes ==
  {n \in NoteIds : /\ notes[n].userId = op.userId
                   /\ notes[n].createdAt \div TicksPerDay = loc.now \div TicksPerDay}
WindowMeetings ==
  {m \in MeetingIds : /\ meetings[m].userId = op.userId
                      /\ meetings[m].date \div TicksPerDay = loc.now \div TicksPerDay}
WindowEmpty == WindowNotes = {} /\ WindowMeetings = {}

NewReminders == SubSeq(reminders, Len(before.reminders) + 1, Len(reminders))

\* C10: createRemindersFromActionItems for a meeting with N action items, when
\* every save succeeds, creates exactly N reminders, the k-th titled with the
\* k-th action item; it creates none when N = 0 or the meeting does not exist.
C10_ReminderCardinality ==
  Done("createReminders") =>
    /\ SubSeq(reminders, 1, Len(before.reminders)) = before.reminders
    /\ (op.id \in MeetingIds /\ ~caught) =>
         LET items == meetings[op.id].actionItems IN
         /\ Len(NewReminders) = Len(items)
         /\ \A k \in 1..Len(items) : NewReminders[k].title = items[k]
    /\ (op.id \notin MeetingIds \/ Len(meetings[op.id].actionItems) = 0) =>
         NewReminders = <<>>

C10_Witness ==
  /\ Done("createReminders") /\ ~caught /\ op.id = "m1"
  /\ Len(NewReminders) = 2
  /\ NewReminders[1].title = <<"a">> /\ NewReminders[2].title = <<"b">>

C12_LinkMeetingCreatesReminders ==
  (Done("linkMeeting") /\ ~caught /\ op.id \in MeetingIds) =>
    /\ Len(meetings[op.id].actionItems) = Len(rec.items.list)
    /\ Cardinality({k \in 1..Len(NewReminders) :
                       NewReminders[k].linkedEntity = op.id})
         = Len(rec.items.list)

\* C13: once linkMeeting has saved the derived action items, the meeting's
\* actionItems is exactly the list generateActionItems returned in that pass,
\* whatever was stored before; when generateActionItems fails, the meeting
\* keeps the action items it had.
C13_ActionItemsOverwritten ==
  (op.name = "linkMeeting" /\ op.id \in MeetingIds) =>
    /\ op.id \in saved => meetings[op.id].actionItems = rec.items.list
    /\ (pc = "done" /\ rec.items.kind = "fail") =>
         meetings[op.id].actionItems = before.meetings[op.id].actionItems

C13_Witness ==
  /\ Done("linkMeeting") /\ op.id = "m1" /\ "m1" \in saved
  /\ before.meetings["m1"].actionItems = <<<<"a">>, <<"b">>>>
  /\ rec.items.list = <<<<"b">>>>
  /\ meetings["m1"].actionItems = <<<<"b">>>>

\* C14: linkNote adds the note to a Person's linkedNotes exactly when the
\* Person belongs to the owner and its name equals an extracted name
\* regardless of letter case; a name equal to no Person's name links nothing.
C14_CaseInsensitiveMatch ==
  (Done("linkNote") /\ ~caught) =>
    \A p \in PersonIds :
      Count(persons[p].linkedNotes, op.id)
          > Count(before.persons[p].linkedNotes, op.id)
        <=> /\ persons[p].userId = op.userId
            /\ \E name \in loc.people :
                 toLowerCase(name) = toLowerCase(persons[p].name)

\* C16: when a pass of linkNote adds the id of a similar note to the note's
\* linkedEntities, that similar note's linkedEntities holds the id of the
\* note when the pass completes.
C16_BidirectionalLinks ==
  (Done("linkNote") /\ ~caught /\ op.id \in NoteIds) =>
    \A n \in Range(loc.doc.pushed) : op.id \in Range(notes[n].linkedEntities)

\* C18: the connections findConnections hands to linkNote are in descending
\* order of score, connections of equal score in ascending order of index,
\* so that the ids linkNote appends for one pass appear in that order.
C18_RankedOrder ==
  (op.name = "linkNote" /\ loc.connections.kind = "ok") =>
    LET conns == loc.connections.list IN
    \A j, k \in 1..Len(conns) :
      j < k => \/ conns[j].score > conns[k].score
               \/ /\ conns[j].score = conns[k].score
                  /\ conns[j].index <= conns[k].index

\* C15: whatever sequence of linkNote, linkPerson and linkMeeting calls has
\* run, the Person, Note and Meeting collections hold the records they held
\* at the start, none created and none deleted; a name that was extracted
\* and found no Person has created none.
C15_NoCreateNoDelete ==
  /\ DOMAIN persons = PersonIds
  /\ DOMAIN notes = NoteIds
  /\ DOMAIN meetings = MeetingIds
  /\ \A p \in PersonIds : /\ persons[p].userId = InitPersons[p].userId
                          /\ persons[p].name = InitPersons[p].name
  /\ \A n \in NoteIds : notes[n].userId = InitNotes[n].userId
  /\ \A m \in MeetingIds : meetings[m].userId = InitMeetings[m].userId

C15_Witness ==
  /\ calls = MaxCalls /\ Done("linkNote") /\ ~caught
  /\ loc.people = {an}
  /\ FindPeople("u1", {an}) = <<>>
  /\ persons # InitPersons /\ meetings # InitMeetings
  /\ Cardinality(DOMAIN persons) = Cardinality(PersonIds)

\* C17: after any sequence of calls, no note's linkedEntities holds the
\* note's own id: the candidates of linkNote never include the note itself.
C17_NoSelfLink ==
  /\ \A n \in NoteIds : n \notin Range(notes[n].linkedEntities)
  /\ op.name = "linkNote" => op.id \notin Range(loc.allNotes)

C17_Witness ==
  /\ calls = MaxCalls /\ Done("linkNote") /\ ~caught /\ op.id = "n2"
  /\ loc.allNotes = <<"n1", "n3">>
  /\ notes["n1"].linkedEntities = <<"n3", "n2">>
  /\ notes["n2"].linkedEntities = <<"n1">>

BothDone == pc = "done" /\ other.pc = "done"

\* C19: when two linkNote passes for different notes run concurrently and
\* both run to their end, every Person of the owner whose name both passes
\* extracted has both note ids in its linkedNotes: neither pass's addition
\* is lost.
C19_NoLostUpdate ==
  (BothDone /\ op.name = "linkNote" /\ other.op.name = "linkNote"
     /\ ~caught /\ ~other.caught) =>
    \A p \in PersonIds :
      (persons[p].userId = op.userId
         /\ persons[p].name \in loc.people \cap other.loc.people)
        => {op.id, other.op.id} \subseteq Range(persons[p].linkedNotes)

C19_Witness ==
  /\ BothDone /\ op.name = "linkNote" /\ other.op.name = "linkNote"
  /\ ~caught /\ ~other.caught
  /\ persons["p1"].linkedNotes = <<"n1", "n2">>
  /\ persons["p2"].linkedNotes = <<"n2", "n1">>

\* C20: when linkNote for a note and linkPerson for a Person the note names
\* run concurrently and both run to their end, no Person's linkedNotes or
\* meetings holds an id twice.
C20_InterleavingSafe ==
  (BothDone /\ {op.name, other.op.name} = {"linkNote", "linkPerson"}
     /\ ~caught /\ ~other.caught) =>
    \A p \in PersonIds : /\ NoDuplicates(persons[p].linkedNotes)
                         /\ NoDuplicates(persons[p].meetings)

\* C21: running linkMeeting twice with identical arguments and identical
\* action-item and matcher answers leaves the meeting's linkedNotes as the
\* first run left it, and no note id occurs in it twice.
C21_LinkMeetingRetrySafe ==
  (Done("linkMeeting") /\ passes >= 2 /\ clean /\ op.id \in MeetingIds) =>
    /\ meetings[op.id].linkedNotes = before.meetings[op.id].linkedNotes
    /\ NoDuplicates(meetings[op.id].linkedNotes)

\* C22: when the language model's reply to extractEntities is no JSON or
\* parses to something that is no entity bag, extractEntities returns an
\* empty entity bag to linkNote and does not raise.
C22_ExtractionClientFailsSoft ==
  (op.name = "linkNote" /\ rec.entities.kind # "none"
     /\ rec.entities.reply \in {"unparseable", "null"}) =>
    /\ rec.entities.kind = "ok"
    /\ rec.entities.people = {}

\* C23: when several Persons of the owner have the name an extracted name
\* matches, linkNote adds the note to the first of them in query order only
\* and leaves the linkedNotes of the others as they were.
C23_FirstDuplicateOnly ==
  (Done("linkNote") /\ ~caught) =>
    LET found == FindPeople(op.userId, loc.people) IN
    \A j, k \in 1..Len(found) :
      (j < k /\ persons[found[j]].name = persons[found[k]].name) =>
        persons[found[k]].linkedNotes = before.persons[found[k]].linkedNotes

\* C24: however many records the owner has, linkNote and linkMeeting hold at
\* most 50 candidate notes, linkPerson at most 100 notes and 100 meetings;
\* findConnections is called only with a non-empty list of candidates.
C24_BoundedWindow ==
  /\ op.name \in {"linkNote", "linkMeeting"} => Len(loc.allNotes) <= NoteWindow
  /\ op.name = "linkPerson" => /\ Len(loc.allNotes) <= PersonWindow
                               /\ Len(loc.allMeetings) <= PersonWindow
  /\ pc \in {"n_findConn", "m_findConn"} => Len(loc.allNotes) > 0
  /\ rec.connections.kind # "none" => Len(loc.allNotes) > 0

C24_Witness ==
  /\ Done("linkNote") /\ op.userId = HeavyUser /\ ~caught
  /\ Len(FindOtherNotes(op.userId, op.id)) > PersonWindow
  /\ Len(loc.allNotes) = NoteWindow
  /\ rec.connections.kind = "ok"

\* C25: in linkMeeting, when generateActionItems fails the similarity step
\* of the same pass still runs (the candidates are queried and the matcher
\* is asked), and when the similarity step fails the action items saved in
\* that pass stay on the meeting.
C25_DerivationAndLinkingIndependent ==
  (Done("linkMeeting") /\ op.userId \in Users /\ op.id \in MeetingIds) =>
    /\ rec.items.kind = "fail" =>
         /\ loc.allNotes = limit(FindNotes(op.userId), NoteWindow)
         /\ rec.connections.kind # "none"
    /\ (rec.connections.kind = "fail" /\ op.id \in saved) =>
         meetings[op.id].actionItems = rec.items.list

\* the window records of the call's owner that contain the name, ignoring case
NotesNaming ==
  {n \in Range(limit(FindNotes(op.userId), PersonWindow)) :
     includes(toLowerCase(notes[n].content), toLowerCase(op.text))}
MeetingsNaming ==
  {m \in Range(limit(FindMeetings(op.userId), PersonWindow)) :
     includes(toLowerCase(meetings[m].title), toLowerCase(op.text))}

IsPrefix(s, t) == Len(s) <= Len(t) /\ SubSeq(t, 1, Len(s)) = s

\* C26: after linkPerson on an existing Person, linkedNotes is what it was
\* followed by the ids of the owner's window notes whose content contains
\* the name ignoring case, meetings is what it was followed by the ids of
\* the window meetings whose title contains it, no id twice; a second
\* identical call changes nothing; when the Person does not exist nothing
\* is written.
C26_LinkPersonAppendIfAbsent ==
  Done("linkPerson") =>
    /\ (op.id \in PersonIds /\ ~caught) =>
         LET was == before.persons[op.id]
             is == persons[op.id]
         IN /\ IsPrefix(was.linkedNotes, is.linkedNotes)
            /\ Range(is.linkedNotes) = Range(was.linkedNotes) \cup NotesNaming
            /\ NoDuplicates(is.linkedNotes)
            /\ IsPrefix(was.meetings, is.meetings)
            /\ Range(is.meetings) = Range(was.meetings) \cup MeetingsNaming
            /\ NoDuplicates(is.meetings)
    /\ (passes >= 2 /\ clean) => persons = before.persons
    /\ op.id \notin PersonIds => Snapshot = before

C26_Witness ==
  /\ Done("linkPerson") /\ passes = 2 /\ clean
  /\ op.id = "p1" /\ op.text = Jo
  /\ persons["p1"].linkedNotes = <<"n1", "n2">>
  /\ persons["p1"].meetings = <<"m1">>

\* C27: running createRemindersFromActionItems a second time for a meeting
\* whose action items did not change creates no further reminder: the
\* reminders linked to the meeting are as many as its action items.
C27_ReminderDerivationRepeatable ==
  (Done("createReminders") /\ passes >= 2 /\ clean /\ op.id \in MeetingIds) =>
    Cardinality({k \in 1..Len(reminders) : reminders[k].linkedEntity = op.id})
      = Len(meetings[op.id].actionItems)

\* the values appended to an array since the pass started
Added(is, was) == {is[k] : k \in (Len(was) + 1)..Len(is)}

\* C28: a pass of linkNote, linkPerson or linkMeeting called with owner O
\* changes no Person, Note or Meeting of another owner, and appends to no
\* link collection the id of a note or meeting of another owner.
C28_OwnerIsolation ==
  (op.name \in LinkingMethods /\ op.userId \in Users) =>
    /\ \A p \in PersonIds :
         /\ persons[p].userId # op.userId => persons[p] = before.persons[p]
         /\ \A n \in NoteIds \cap Added(persons[p].linkedNotes,
                                        before.persons[p].linkedNotes) :
              notes[n].userId = op.userId
         /\ \A m \in MeetingIds \cap Added(persons[p].meetings,
                                           before.persons[p].meetings) :
              meetings[m].userId = op.userId
    /\ \A n \in NoteIds :
         /\ notes[n].userId # op.userId => notes[n] = before.notes[n]
         /\ \A r \in NoteIds \cap Added(notes[n].linkedEntities,
                                        before.notes[n].linkedEntities) :
              notes[r].userId = op.userId
    /\ \A m \in MeetingIds :
         /\ meetings[m].userId # op.userId => meetings[m] = before.meetings[m]
         /\ \A r \in NoteIds \cap Added(meetings[m].linkedNotes,
                                        before.meetings[m].linkedNotes) :
              notes[r].userId = op.userId

\* C29: when generateDailySummary has notes or meetings to summarize and the
\* summarization capability fails, the call raises and returns no text,
\* neither the sentinel nor the outline; when the capability succeeds the
\* call returns the capability's text unchanged.
C29_DigestFailurePropagates ==
  Done("dailySummary") =>
    /\ loc.summary.kind = "fail" =>
         /\ outcome = "raised"
         /\ result = <<>>
         /\ loc.content # <<>>
    /\ loc.summary.kind = "ok" =>
         /\ outcome = "returned"
         /\ result = loc.summary.text

C29_Witness ==
  /\ Done("dailySummary") /\ op.userId = "u1" /\ ~WindowEmpty
  /\ loc.summary.kind = "fail" /\ aiCalls = 1
  /\ outcome = "raised" /\ result = <<>>

\* the matcher's answer holds a connection above the threshold whose index
\* is no position of the candidate list
NamesNoCandidate ==
  /\ loc.connections.kind = "ok"
  /\ \E k \in 1..Len(loc.connections.list) :
       /\ loc.connections.list[k].score > LinkThreshold
       /\ ~NamesCandidate(loc.connections.list[k])

\* C30: when findConnections returns a connection with score > 0.6 whose
\* index is no position of the candidate list, linkNote saves none of the
\* pass's similarity links, not even those of valid connections before it,
\* keeps the Person links it saved, and returns without raising.
C30_SimilarityLinksAllOrNothing ==
  (Done("linkNote") /\ NamesNoCandidate) =>
    /\ notes = before.notes
    /\ outcome = "returned"
    /\ \A p \in PersonIds :
         persons[p].linkedNotes =
           IF p \in saved THEN Append(before.persons[p].linkedNotes, op.id)
           ELSE before.persons[p].linkedNotes

C30_Witness ==
  /\ Done("linkNote") /\ op.id = "n1" /\ passes = 1
  /\ loc.allNotes = <<"n2", "n3">>
  /\ NamesNoCandidate
  /\ loc.connections.list =
       <<[index |-> 0, score |-> 7], [index |-> 2, score |-> 7]>>
  /\ caught /\ outcome = "returned"
  /\ notes["n1"].linkedEntities = <<"n3">>
  /\ persons["p1"].linkedNotes = <<"n1">>

====
